---------------------------- MODULE Spec2Model ----------------------------
(***************************************************************************)
(* PNG to JPEG batch converter: the command line tool (png2jpg.py) and the *)
(* tkinter shell around it (png2jpg_gui.py).                               *)
(*                                                                         *)
(* Strings the program inspects (file names, the background colour) are    *)
(* sequences of one-character strings, so that suffix extraction, lower    *)
(* casing, splitting, stripping and integer parsing are computed as the    *)
(* code computes them.  A path is a sequence of names.                     *)
(***************************************************************************)
EXTENDS Integers, Sequences, FiniteSets, TLC

(***************************************************************************)
(* Bounds of the model.                                                    *)
(***************************************************************************)
\* non-directory entries in an input tree of a command line run
MaxFiles == 3
\* comma separated fields in a background colour string
MaxFields == 4
\* edits of the form's fields by the user in one GUI session
MaxEdits == 4
\* conversions the user starts in one GUI session
MaxRuns == 2

(***************************************************************************)
(* Characters and strings.                                                 *)
(***************************************************************************)
SetMax(S) == CHOOSE x \in S : \A y \in S : y <= x

\* str.lower() on one character
LowerChar(c) ==
    CASE c = "P" -> "p"
      [] c = "N" -> "n"
      [] c = "G" -> "g"
      [] OTHER -> c

\* str.lower()
Lower(s) == [i \in 1..Len(s) |-> LowerChar(s[i])]

\* PurePath.suffix: the last dot of the name and what follows it, unless the
\* dot is the first or the last character
SuffixAt(name) ==
    LET dots == {i \in 1..Len(name) : name[i] = "."}
    IN  IF dots = {} THEN 0
        ELSE IF SetMax(dots) > 1 /\ SetMax(dots) < Len(name) THEN SetMax(dots)
        ELSE 0

Suffix(name) ==
    IF SuffixAt(name) = 0 THEN <<>>
    ELSE SubSeq(name, SuffixAt(name), Len(name))

\* PurePath.stem
Stem(name) ==
    IF SuffixAt(name) = 0 THEN name
    ELSE SubSeq(name, 1, SuffixAt(name) - 1)

DotPng == <<".", "p", "n", "g">>
DotJpg == <<".", "j", "p", "g">>

\* the comparison without lower()
IsPngNameCaseSensitive(name) == Suffix(name) = DotPng

\* file_path.suffix.lower() != ".png", negated
IsPngName(name) == Lower(Suffix(name)) = DotPng

\* PurePath.with_suffix(".jpg") on the last name of a relative path
WithSuffixJpg(rel) ==
    [rel EXCEPT ![Len(rel)] = Stem(rel[Len(rel)]) \o DotJpg]

\* file_path.relative_to(input_path) then output_path / ...with_suffix(".jpg");
\* paths of the model are already relative to the root they live under
OutputFile(rel) == WithSuffixJpg(rel)

\* os.path.dirname of str(output_file): the path without its last name
Dirname(p) == SubSeq(p, 1, Len(p) - 1)


(***************************************************************************)
(* Background colour: "R,G,B" to a tuple of three integers.                *)
(***************************************************************************)
Digits == {"0", "1", "2", "3", "4", "5", "6", "7", "8", "9"}

DigitVal(c) ==
    CASE c = "0" -> 0 [] c = "1" -> 1 [] c = "2" -> 2 [] c = "3" -> 3
      [] c = "4" -> 4 [] c = "5" -> 5 [] c = "6" -> 6 [] c = "7" -> 7
      [] c = "8" -> 8 [] c = "9" -> 9

SetMin(S) == CHOOSE x \in S : \A y \in S : x <= y

\* the one element of a set of one
The(S) == CHOOSE x \in S : TRUE

\* str.split(","): the pieces between the commas, empty pieces kept
SplitComma(s) ==
    LET commas == {i \in 1..Len(s) : s[i] = ","}
        starts == {1} \cup {i + 1 : i \in commas}
        Nth(k) == CHOOSE a \in starts : Cardinality({b \in starts : b < a}) = k - 1
        PieceFrom(a) ==
            LET after == {i \in commas : i >= a}
            IN  SubSeq(s, a, IF after = {} THEN Len(s) ELSE SetMin(after) - 1)
    IN  [k \in 1..Cardinality(starts) |-> PieceFrom(Nth(k))]

\* str.strip(): leading and trailing blanks removed
Strip(s) ==
    LET kept == {i \in 1..Len(s) : s[i] # " "}
    IN  IF kept = {} THEN <<>> ELSE SubSeq(s, SetMin(kept), SetMax(kept))

\* the value of a sequence of decimal digits
RECURSIVE DecimalValue(_)
DecimalValue(ds) ==
    IF ds = <<>> THEN 0
    ELSE 10 * DecimalValue(SubSeq(ds, 1, Len(ds) - 1)) + DigitVal(ds[Len(ds)])

AllDigits(s) == s # <<>> /\ \A i \in 1..Len(s) : s[i] \in Digits

\* int(x) over the characters of the model (digits, signs, blanks, letters):
\* blanks stripped, an optional sign, then decimal digits; anything else is a
\* ValueError ("invalid literal")
IntOk(x) ==
    \E t \in {Strip(x)} :
        IF t # <<>> /\ Head(t) \in {"-", "+"} THEN AllDigits(Tail(t))
        ELSE AllDigits(t)

IntValue(x) ==
    The({ IF Head(t) = "-" THEN 0 - DecimalValue(Tail(t))
          ELSE IF Head(t) = "+" THEN DecimalValue(Tail(t))
          ELSE DecimalValue(t) : t \in {Strip(x)} })

\* the outcome of a parse: accepted with a tuple, or rejected
Rejected == [ok |-> FALSE, rgb |-> <<>>]
Accepted(rgb) == [ok |-> TRUE, rgb |-> rgb]

ChannelLowCli == 0
ChannelHighCli == 255

\* parse_arguments, the try block on args.background
CliParseBackground(s) ==
    The({ IF Len(bg_parts) # 3 THEN Rejected
          ELSE IF \E i \in 1..3 : ~IntOk(Strip(bg_parts[i])) THEN Rejected
          ELSE The({ IF \E i \in 1..3 :
                          ~(ChannelLowCli <= bg_color[i] /\ bg_color[i] <= ChannelHighCli)
                     THEN Rejected
                     ELSE Accepted(bg_color) :
                     bg_color \in {<<IntValue(Strip(bg_parts[1])),
                                     IntValue(Strip(bg_parts[2])),
                                     IntValue(Strip(bg_parts[3]))>>} }) :
          bg_parts \in {SplitComma(s)} })

\* a parser that reads the first three fields and ignores the rest
GuiParseBgColorLoose(color_str) ==
    The({ IF Len(parts) < 3 THEN Rejected
          ELSE IF \E i \in 1..3 : ~IntOk(Strip(parts[i])) THEN Rejected
          ELSE The({ IF \E i \in 1..3 : ~(0 <= rgb[i] /\ rgb[i] <= 255)
                     THEN Rejected
                     ELSE Accepted(rgb) :
                     rgb \in {<<IntValue(Strip(parts[1])), IntValue(Strip(parts[2])),
                                IntValue(Strip(parts[3]))>>} }) :
          parts \in {SplitComma(color_str)} })

ChannelLowGui == 0
ChannelHighGui == 255

\* PNGtoJPEGConverter.parse_bg_color: every failure leaves as a ValueError
GuiParseBgColor(color_str) ==
    The({ IF Len(parts) # 3 THEN Rejected
          ELSE IF \E i \in 1..3 : ~IntOk(Strip(parts[i])) THEN Rejected
          ELSE The({ IF \E i \in 1..3 :
                          ~(ChannelLowGui <= rgb[i] /\ rgb[i] <= ChannelHighGui)
                     THEN Rejected
                     ELSE Accepted(rgb) :
                     rgb \in {<<IntValue(Strip(parts[1])), IntValue(Strip(parts[2])),
                                IntValue(Strip(parts[3]))>>} }) :
          parts \in {SplitComma(color_str)} })

QualityMin == 1
QualityMax == 100

\* a range check that lets 0 through
QualityOkFromZero(q) == 0 <= q /\ q <= QualityMax

\* parse_arguments: 1 <= args.quality <= 100
QualityOk(q) == QualityMin <= q /\ q <= QualityMax

(***************************************************************************)
(* The file system.  The input tree lives under the directory "in"; the    *)
(* output side is the set of directories and files below the working       *)
(* directory, a path being the sequence of its names.                      *)
(***************************************************************************)
NameA == <<"a", ".", "p", "n", "g">>
NameAUpper == <<"a", ".", "P", "N", "G">>
NameTxt == <<"n", ".", "t", "x", "t">>
NameHidden == <<".", "p", "n", "g">>
NameSub == <<"s", "u", "b">>
NameC == <<"c", ".", "p", "n", "g">>
NameArch == <<"x", ".", "p", "n", "g">>
NameD == <<"d", ".", "v", ".", "P", "n", "g">>
NameOut == <<"o", "u", "t">>

NoImage == [mode |-> "none", data |-> "none"]
Img(mode, data) == [mode |-> mode, data |-> data]
Dir(path) == [path |-> path, dir |-> TRUE, img |-> NoImage]
File(path, img) == [path |-> path, dir |-> FALSE, img |-> img]

\* the entries an input tree is made of: files with a decodable image, with a
\* header Image.open refuses ("bad") or with pixel data that fails to load
\* ("truncated"), files that are no PNG, and directories
AllEntries ==
    { File(<<NameA>>, Img("RGBA", "ok")), File(<<NameA>>, Img("RGB", "bad")),
      File(<<NameAUpper>>, Img("P", "ok")), File(<<NameAUpper>>, Img("RGB", "truncated")),
      File(<<NameTxt>>, NoImage), File(<<NameHidden>>, NoImage),
      Dir(<<NameSub>>),
      File(<<NameSub, NameC>>, Img("RGB", "ok")),
      Dir(<<NameSub, NameArch>>),
      File(<<NameSub, NameArch, NameD>>, Img("L", "ok")),
      File(<<NameSub, NameArch, NameD>>, Img("LA", "truncated")) }

FilesOf(t) == {e \in t : ~e.dir}

IsTree(t) ==
    /\ \A e1, e2 \in t : e1.path = e2.path => e1 = e2
    /\ \A e \in t : Len(e.path) > 1 => Dir(Dirname(e.path)) \in t

Trees == {t \in SUBSET AllEntries : IsTree(t) /\ Cardinality(FilesOf(t)) <= MaxFiles}

\* os.path.isdir on the input argument: "in" is the one directory there is
IsDir(d) == d = "in"

\* Path(output_dir): "." and "" are the working directory itself
RootParts(d) == IF d \in {".", ""} THEN <<>> ELSE <<NameOut>>

\* rglob whatever the flag
GlobIgnoringFlag(tree, input_dir, recursive) ==
    IF ~IsDir(input_dir) THEN {} ELSE tree

\* Path.glob("*") and Path.rglob("*") of the input root; nothing when the root
\* is no directory
Glob(tree, input_dir, recursive) ==
    IF ~IsDir(input_dir) THEN {}
    ELSE IF recursive THEN tree
    ELSE {e \in tree : Len(e.path) = 1}

\* get_png_files: glob("*.png") or rglob("*.png"), the pattern matched with the
\* case of the letters kept (POSIX), then the is_file filter
GetPngFiles(tree, input_dir, recursive) ==
    {e \in Glob(tree, input_dir, recursive) :
        /\ Len(e.path[Len(e.path)]) >= Len(DotPng)
        /\ SubSeq(e.path[Len(e.path)], Len(e.path[Len(e.path)]) - 3,
                  Len(e.path[Len(e.path)])) = DotPng
        /\ ~e.dir}

\* the directories os.makedirs has to create for d, outermost first
MissingDirs(dirs, d) == {k \in 1..Len(d) : SubSeq(d, 1, k) \notin dirs}

(***************************************************************************)
(* State.                                                                  *)
(***************************************************************************)
VARIABLES
    mode,        \* "cli", "gui": which program runs; "parse": validation alone
    tree,        \* the entries below the input directory
    outDirs,     \* the directories below the working directory
    outFiles,    \* path |-> content of the files below the working directory
    args,        \* the command line (CLI)
    th,          \* thread |-> its position and locals; 0 is the CLI's main
    emitted,     \* bag of the messages handed to print or to progress_callback
    convCalls,   \* bag of the calls of convert_image_with_callback, with results
    exitCode,    \* the CLI's exit status, -1 while it runs
    form,        \* the tkinter variables of the form (GUI)
    is_converting,   \* PNGtoJPEGConverter.is_converting
    button,      \* state of the Convert button
    log,         \* lines of the status text widget, each with its writer
    queue,       \* callbacks posted with root.after(0, ...), oldest first
    messagebox,  \* the validation error shown last, "" when none was
    checked,     \* what validate_inputs read when it last accepted
    started,     \* worker threads started so far
    edits,       \* edits of the form so far
    parsed       \* outcome of the validators ("parse" mode)

vars == <<mode, tree, outDirs, outFiles, args, th, emitted, convCalls, exitCode,
          form, is_converting, button, log, queue, messagebox, checked, started,
          edits, parsed>>

NoEntry == [path |-> <<>>, dir |-> FALSE, img |-> NoImage]

\* locals of a thread before it has read anything
Locals(pc) ==
    [pc |-> pc, input_dir |-> "", output_dir |-> "", quality |-> 0,
     recursive |-> FALSE, bg_color |-> <<>>, files |-> {}, cur |-> NoEntry,
     converted_count |-> 0, skipped_count |-> 0]

\* the working directory exists; the output directory may
InitialOutDirs == {{<<>>}, {<<>>, <<NameOut>>}}

EmptyFiles == [p \in {} |-> 0]

\* the form as __init__ leaves it
InitialForm ==
    [input_path |-> "", output_path |-> "", quality |-> 85, recursive |-> FALSE,
     bg_option |-> "white", custom_bg |-> <<"2", "5", "5", ",", "2", "5", "5", ",", "2", "5", "5">>]

NothingChecked ==
    [input_dir |-> "", output_dir |-> "", recursive |-> FALSE, bg_option |-> "",
     custom_bg |-> <<>>]

(***************************************************************************)
(* The sink of a batch: print (CLI, no callback) or progress_callback      *)
(* (GUI), which posts log_message to the event loop.                       *)
(***************************************************************************)
HasCallback(t) == t # 0

\* one more x in the bag b (a function from what was seen to how often)
BagAdd(b, x) ==
    [y \in DOMAIN b \cup {x} |->
        IF y = x THEN (IF x \in DOMAIN b THEN b[x] + 1 ELSE 1) ELSE b[y]]

BagCount(b, x) == IF x \in DOMAIN b THEN b[x] ELSE 0

EmptyBag == [x \in {} |-> 0]

\* how many of the bag satisfy Test
RECURSIVE BagSum(_, _)
BagSum(b, S) ==
    IF S = {} THEN 0
    ELSE LET x == CHOOSE y \in S : TRUE
         IN  b[x] + BagSum(b, S \ {x})

Post(q, fn, msg, is_error) ==
    Append(q, [fn |-> fn, msg |-> msg, is_error |-> is_error])

\* "if progress_callback: progress_callback(msg, is_error) else: print(msg)"
Sink(t, msg, is_error) ==
    /\ emitted' = BagAdd(emitted,
            [t |-> t, msg |-> msg, is_error |-> is_error,
             via |-> IF HasCallback(t) THEN "callback"
                     ELSE IF is_error THEN "stderr" ELSE "stdout"])
    /\ queue' = IF HasCallback(t) THEN Post(queue, "log_message", msg, is_error)
                ELSE queue

NoSink == UNCHANGED <<emitted, queue>>

\* print of the CLI's main
ToStdout(msg) ==
    emitted' = BagAdd(emitted, [t |-> 0, msg |-> msg, is_error |-> FALSE, via |-> "stdout"])

(***************************************************************************)
(* convert_image_with_callback                                             *)
(***************************************************************************)
\* what the JPEG holds: the source, and the background where one was
\* composited in
Jpeg(e, quality, bg_color) ==
    [src |-> e.path, quality |-> quality,
     bg |-> IF e.img.mode \in {"RGBA", "LA", "P"} THEN bg_color ELSE <<>>]

Partial == [src |-> <<>>, quality |-> 0, bg |-> <<>>]

Write(files, p, c) == [q \in DOMAIN files \cup {p} |-> IF q = p THEN c ELSE files[q]]

\* Image.open fails on a bad header
OpenFails(e) == e.img.data = "bad"

\* the compositing and convert("RGB") branches read the pixels; an image that
\* is already RGB is passed on untouched
NormaliseFails(e) == e.img.mode # "RGB" /\ e.img.data = "truncated"

Prefixes(d, ks) == {SubSeq(d, 1, k) : k \in ks}

\* os.makedirs(os.path.dirname(output_path), exist_ok=True): the sets of
\* directories it can leave behind, with whether it returned.  The empty
\* dirname is refused; a missing chain is created outermost first and may
\* fail at any link.
MakedirsOutcomes(dirs, output_file) ==
    LET d == Dirname(output_file)
        missing == MissingDirs(dirs, d)
    IN  IF d = <<>> THEN {[ok |-> FALSE, dirs |-> dirs]}
        ELSE IF missing = {} THEN {[ok |-> TRUE, dirs |-> dirs]}
        ELSE {[ok |-> TRUE, dirs |-> dirs \cup Prefixes(d, missing)]}
             \cup {[ok |-> FALSE, dirs |-> dirs \cup Prefixes(d, {j \in missing : j < k})] :
                     k \in missing}

\* img.save(output_path, 'JPEG', ...): the pixels are loaded, then the file is
\* opened for writing and encoded into.  A failure leaves the file as it was
\* or, once opened, cut short.
SaveOutcomes(files, e, output_file, quality, bg_color) ==
    IF e.img.data = "truncated" THEN {[ok |-> FALSE, files |-> files]}
    ELSE {[ok |-> TRUE, files |-> Write(files, output_file, Jpeg(e, quality, bg_color))],
          [ok |-> FALSE, files |-> files],
          [ok |-> FALSE, files |-> Write(files, output_file, Partial)]}

\* a converter that makes the parent directories before it opens the image
ConvertOutcomesDirsFirst(dirs, files, e, output_file, quality, bg_color) ==
    UNION {
      IF ~m.ok
      THEN {[ok |-> FALSE, step |-> "makedirs", dirs |-> m.dirs, files |-> files]}
      ELSE IF OpenFails(e)
      THEN {[ok |-> FALSE, step |-> "decode", dirs |-> m.dirs, files |-> files]}
      ELSE IF NormaliseFails(e)
      THEN {[ok |-> FALSE, step |-> "normalise", dirs |-> m.dirs, files |-> files]}
      ELSE {[ok |-> sv.ok, step |-> IF sv.ok THEN "done" ELSE "encode",
             dirs |-> m.dirs, files |-> sv.files] :
               sv \in SaveOutcomes(files, e, output_file, quality, bg_color)} :
      m \in MakedirsOutcomes(dirs, output_file)}

\* the whole try block: every way the call can end, with the file system it
\* leaves and the step that raised
ConvertOutcomes(dirs, files, e, output_file, quality, bg_color) ==
    IF OpenFails(e)
    THEN {[ok |-> FALSE, step |-> "decode", dirs |-> dirs, files |-> files]}
    ELSE IF NormaliseFails(e)
    THEN {[ok |-> FALSE, step |-> "normalise", dirs |-> dirs, files |-> files]}
    ELSE UNION {
           IF ~m.ok
           THEN {[ok |-> FALSE, step |-> "makedirs", dirs |-> m.dirs, files |-> files]}
           ELSE {[ok |-> sv.ok, step |-> IF sv.ok THEN "done" ELSE "encode",
                  dirs |-> m.dirs, files |-> sv.files] :
                    sv \in SaveOutcomes(files, e, output_file, quality, bg_color)} :
           m \in MakedirsOutcomes(dirs, output_file)}

\* os.path.basename(input_path)
Basename(path) == path[Len(path)]

(***************************************************************************)
(* process_directory, run by thread t                                      *)
(***************************************************************************)
\* where an exception that leaves process_directory lands: nowhere in the
\* CLI's main, in run_conversion's except clause in the GUI
Raised(t) == IF HasCallback(t) THEN "except" ELSE "uncaught"

\* output_path.mkdir(parents=True, exist_ok=True), then the files are listed
PdBegin(t) ==
    /\ th[t].pc = "process_directory"
    /\ LET root == RootParts(th[t].output_dir)
           listed == [th[t] EXCEPT !.pc = "pd_loop",
                        !.converted_count = 0, !.skipped_count = 0,
                        !.files = Glob(tree, th[t].input_dir, th[t].recursive)]
       IN  \/ /\ root \in outDirs
              /\ th' = [th EXCEPT ![t] = listed]
              /\ UNCHANGED outDirs
           \/ /\ root \notin outDirs
              /\ outDirs' = outDirs \cup {root}
              /\ th' = [th EXCEPT ![t] = listed]
           \/ /\ root \notin outDirs
              /\ th' = [th EXCEPT ![t].pc = Raised(t)]
              /\ UNCHANGED outDirs
    /\ UNCHANGED <<mode, tree, outFiles, args, emitted, convCalls, exitCode,
                   form, is_converting, button, log, queue, messagebox, checked,
                   started, edits,
                   parsed>>

WarningMsg(e) == <<"Warning: Skipping non-PNG file", e.path>>
ConvertingMsg(e) == <<"Converting", Basename(e.path), Basename(OutputFile(e.path))>>
ErrorMsg(e) == <<"Error", Basename(e.path)>>

\* one turn of "for file_path in files" up to the call of the converter
PdPick(t) ==
    /\ th[t].pc = "pd_loop"
    /\ \E e \in th[t].files :
         \/ /\ e.dir
            /\ th' = [th EXCEPT ![t].files = @ \ {e}]
            /\ NoSink
         \/ /\ ~e.dir
            /\ ~IsPngName(Basename(e.path))
            /\ Sink(t, WarningMsg(e), FALSE)
            /\ th' = [th EXCEPT ![t].files = @ \ {e},
                                ![t].skipped_count = @ + 1]
         \/ /\ ~e.dir
            /\ IsPngName(Basename(e.path))
            /\ Sink(t, ConvertingMsg(e), FALSE)
            /\ th' = [th EXCEPT ![t].files = @ \ {e}, ![t].cur = e,
                                ![t].pc = "pd_convert"]
    /\ UNCHANGED <<mode, tree, outDirs, outFiles, args, convCalls, exitCode,
                   form, is_converting, button, log, messagebox, checked,
                   started, edits,
                   parsed>>

\* a converter whose failure leaves as an exception instead of False
AfterCallRaising(l, ok) ==
    IF ok
    THEN [l EXCEPT !.pc = "pd_loop", !.cur = NoEntry, !.converted_count = @ + 1]
    ELSE [l EXCEPT !.pc = "uncaught", !.cur = NoEntry]

\* the loop after the converter has returned ok: the count, and on to the
\* next file
AfterCall(l, ok) ==
    IF ok
    THEN [l EXCEPT !.pc = "pd_loop", !.cur = NoEntry, !.converted_count = @ + 1]
    ELSE [l EXCEPT !.pc = "pd_loop", !.cur = NoEntry, !.skipped_count = @ + 1]

\* str(output_file) of the current file
OutputPath(t) == RootParts(th[t].output_dir) \o OutputFile(th[t].cur.path)

\* the call of convert_image_with_callback and the count it adds to
PdConvert(t) ==
    /\ th[t].pc = "pd_convert"
    /\ \E r \in ConvertOutcomes(outDirs, outFiles, th[t].cur, OutputPath(t),
                                th[t].quality, th[t].bg_color) :
         /\ outDirs' = r.dirs
         /\ outFiles' = r.files
         /\ convCalls' = BagAdd(convCalls,
                [t |-> t, input |-> th[t].cur.path, output |-> OutputPath(t),
                 ok |-> r.ok, step |-> r.step])
         /\ IF r.ok THEN NoSink ELSE Sink(t, ErrorMsg(th[t].cur), TRUE)
         /\ th' = [th EXCEPT ![t] = AfterCall(th[t], r.ok)]
    /\ UNCHANGED <<mode, tree, args, exitCode, form, is_converting, button, log,
                   messagebox, checked, started, edits,
                   parsed>>

(***************************************************************************)
(* The command line program: parse_arguments and main                      *)
(***************************************************************************)
BgWhite == <<"2", "5", "5", ",", "2", "5", "5", ",", "2", "5", "5">>
BgBlack == <<"0", ",", "0", ",", "0">>
BgTooBig == <<"2", "5", "6", ",", "0", ",", "0">>
BgTooShort == <<"1", ",", "2">>

DefaultArgs ==
    [input |-> "in", output |-> "out", quality |-> 85, recursive |-> FALSE,
     background |-> BgWhite]

\* command lines: the defaults, with any output directory and -r, and with at
\* most one of input, quality and background changed
CliArgs ==
    LET base == {[DefaultArgs EXCEPT !.output = o, !.recursive = r] :
                    o \in {"out", "."}, r \in BOOLEAN}
    IN  base
        \cup {[DefaultArgs EXCEPT !.input = "nodir"]}
        \cup {[DefaultArgs EXCEPT !.quality = q] : q \in {0, 1, 100, 101}}
        \cup {[DefaultArgs EXCEPT !.background = b] : b \in {BgBlack, BgTooBig, BgTooShort}}

\* parser.error: the message goes to stderr and the process exits with 2
UsageError(what) ==
    /\ emitted' = BagAdd(emitted,
            [t |-> 0, msg |-> <<"usage", what>>, is_error |-> TRUE, via |-> "stderr"])
    /\ exitCode' = 2
    /\ th' = [th EXCEPT ![0].pc = "usage_exit"]

\* the checks of parse_arguments in the order the code makes them: the one
\* that calls parser.error, "" when none does
CliRejects(a) ==
    IF ~IsDir(a.input) THEN "input"
    ELSE IF ~QualityOk(a.quality) THEN "quality"
    ELSE IF ~CliParseBackground(a.background).ok THEN "background"
    ELSE ""

\* parse_arguments: the Namespace it returns is kept in the main thread's
\* locals
ParseArguments ==
    /\ mode = "cli"
    /\ th[0].pc = "parse_arguments"
    /\ IF CliRejects(args) # "" THEN UsageError(CliRejects(args))
       ELSE /\ th' = [th EXCEPT ![0] =
                        [@ EXCEPT !.pc = "main", !.input_dir = args.input,
                                  !.output_dir = args.output,
                                  !.quality = args.quality,
                                  !.recursive = args.recursive,
                                  !.bg_color = CliParseBackground(args.background).rgb]]
            /\ UNCHANGED <<emitted, exitCode>>
    /\ UNCHANGED <<mode, tree, outDirs, outFiles, args, convCalls, form,
                   is_converting, button, log, queue, messagebox, checked, started, edits,
                   parsed>>

\* main, from the header it prints to the call of process_directory
MainStart ==
    /\ mode = "cli"
    /\ th[0].pc = "main"
    /\ ToStdout(<<"Starting PNG to JPEG conversion...">>)
    /\ th' = [th EXCEPT ![0].pc = "process_directory"]
    /\ UNCHANGED <<mode, tree, outDirs, outFiles, args, convCalls, exitCode, form,
                   is_converting, button, log, queue, messagebox, checked, started, edits,
                   parsed>>

\* "return 0 if converted > 0 or skipped == 0 else 1"
ExitStatus(converted, skipped) ==
    IF converted > 0 \/ skipped = 0 THEN 0 ELSE 1

\* process_directory returns its counts; main prints the summary and returns
MainSummary ==
    /\ mode = "cli"
    /\ th[0].pc = "pd_loop"
    /\ th[0].files = {}
    /\ ToStdout(<<"Converted", th[0].converted_count, th[0].skipped_count>>)
    /\ exitCode' = ExitStatus(th[0].converted_count, th[0].skipped_count)
    /\ th' = [th EXCEPT ![0].pc = "returned"]
    /\ UNCHANGED <<mode, tree, outDirs, outFiles, args, convCalls, form,
                   is_converting, button, log, queue, messagebox, checked, started, edits,
                   parsed>>

\* an exception nothing catches: a traceback, and the interpreter exits with 1
MainUncaught ==
    /\ mode = "cli"
    /\ th[0].pc = "uncaught"
    /\ exitCode' = 1
    /\ th' = [th EXCEPT ![0].pc = "traceback"]
    /\ UNCHANGED <<mode, tree, outDirs, outFiles, args, emitted, convCalls, form,
                   is_converting, button, log, queue, messagebox, checked, started, edits,
                   parsed>>

(***************************************************************************)
(* The GUI: handlers of the UI thread                                      *)
(***************************************************************************)
\* a button state that follows the two paths whether or not a run is on
UpdateButtonIgnoringRun(converting, state, input_path, output_path) ==
    IF input_path # "" /\ output_path # "" THEN "normal" ELSE "disabled"

\* update_convert_button_state: the state it leaves the button in
UpdateButton(converting, state, input_path, output_path) ==
    IF converting THEN state
    ELSE IF input_path # "" /\ output_path # "" THEN "normal"
    ELSE "disabled"

\* the user types in the input or the output entry: the variable is written
\* and its trace runs update_convert_button_state
EditInput ==
    /\ mode = "gui"
    /\ edits < MaxEdits
    /\ edits' = edits + 1
    /\ \E v \in {"", "in", "nodir"} :
         /\ v # form.input_path
         /\ form' = [form EXCEPT !.input_path = v]
         /\ button' = UpdateButton(is_converting, button, v, form.output_path)
    /\ UNCHANGED <<mode, tree, outDirs, outFiles, args, th, emitted, convCalls,
                   exitCode, is_converting, log, queue, messagebox, checked,
                   started, parsed>>

EditOutput ==
    /\ mode = "gui"
    /\ edits < MaxEdits
    /\ edits' = edits + 1
    /\ \E v \in {"", "out"} :
         /\ v # form.output_path
         /\ form' = [form EXCEPT !.output_path = v]
         /\ button' = UpdateButton(is_converting, button, form.input_path, v)
    /\ UNCHANGED <<mode, tree, outDirs, outFiles, args, th, emitted, convCalls,
                   exitCode, is_converting, log, queue, messagebox, checked,
                   started, parsed>>

\* the radio buttons and the custom colour entry write their variables and
\* nothing else
EditBackground ==
    /\ mode = "gui"
    /\ edits < MaxEdits
    /\ edits' = edits + 1
    /\ \/ \E v \in {"white", "black", "custom"} :
            /\ v # form.bg_option
            /\ form' = [form EXCEPT !.bg_option = v]
       \/ \E v \in {BgWhite, BgTooBig} :
            /\ v # form.custom_bg
            /\ form' = [form EXCEPT !.custom_bg = v]
    /\ UNCHANGED <<mode, tree, outDirs, outFiles, args, th, emitted, convCalls,
                   exitCode, is_converting, button, log, queue, messagebox,
                   checked, started, parsed>>

\* validate_inputs: "" when the form is accepted, else the error message
ValidateInputs(f) ==
    IF ~IsDir(f.input_path) THEN "Input folder does not exist"
    ELSE IF GetPngFiles(tree, f.input_path, f.recursive) = {}
    THEN "No PNG files found in the input folder."
    ELSE IF f.bg_option = "custom" /\ ~GuiParseBgColor(f.custom_bg).ok
    THEN "Background color"
    ELSE ""

LogLine(msg, is_error, by) == [msg |-> msg, is_error |-> is_error, by |-> by]

\* the Convert button is pressed (a disabled button does not call its
\* command): start_conversion
StartConversion ==
    /\ mode = "gui"
    /\ button = "normal"
    /\ started < MaxRuns
    /\ IF ValidateInputs(form) # ""
       THEN /\ messagebox' = ValidateInputs(form)
            /\ UNCHANGED <<th, is_converting, button, log, checked, started>>
       ELSE /\ is_converting' = TRUE
            /\ button' = "disabled"
            /\ log' = <<LogLine(<<"Starting conversion...">>, FALSE, "ui")>>
            /\ th' = [t \in DOMAIN th \cup {started + 1} |->
                        IF t = started + 1 THEN Locals("run_conversion") ELSE th[t]]
            /\ started' = started + 1
            /\ checked' = [input_dir |-> form.input_path,
                           output_dir |-> form.output_path,
                           recursive |-> form.recursive,
                           bg_option |-> form.bg_option,
                           custom_bg |-> form.custom_bg]
            /\ UNCHANGED messagebox
    /\ UNCHANGED <<mode, tree, outDirs, outFiles, args, emitted, convCalls,
                   exitCode, form, queue, edits,
                   parsed>>

\* conversion_complete
ConversionComplete ==
    /\ is_converting' = FALSE
    /\ button' = UpdateButton(FALSE, "normal", form.input_path, form.output_path)
    /\ UNCHANGED log

\* the event loop runs the oldest callback posted with root.after(0, ...)
Pump ==
    /\ mode = "gui"
    /\ queue # <<>>
    /\ queue' = Tail(queue)
    /\ IF Head(queue).fn = "log_message"
       THEN /\ log' = Append(log, LogLine(Head(queue).msg, Head(queue).is_error, "ui"))
            /\ UNCHANGED <<is_converting, button>>
       ELSE ConversionComplete
    /\ UNCHANGED <<mode, tree, outDirs, outFiles, args, th, emitted, convCalls,
                   exitCode, form, messagebox, checked, started, edits,
                   parsed>>

(***************************************************************************)
(* The GUI: run_conversion, on the worker thread t                         *)
(***************************************************************************)
\* the four reads of the form's variables
RunRead(t) ==
    /\ HasCallback(t)
    /\ th[t].pc = "run_conversion"
    /\ th' = [th EXCEPT ![t] =
                [@ EXCEPT !.pc = "get_bg_color", !.input_dir = form.input_path,
                          !.output_dir = form.output_path,
                          !.quality = form.quality,
                          !.recursive = form.recursive]]
    /\ UNCHANGED <<mode, tree, outDirs, outFiles, args, emitted, convCalls,
                   exitCode, form, is_converting, button, log, queue, messagebox,
                   checked, started, edits,
                   parsed>>

\* get_bg_color: the tuple, or Rejected where parse_bg_color raises
GetBgColor(f) ==
    IF f.bg_option = "white" THEN Accepted(<<255, 255, 255>>)
    ELSE IF f.bg_option = "black" THEN Accepted(<<0, 0, 0>>)
    ELSE GuiParseBgColor(f.custom_bg)

RunGetBgColor(t) ==
    /\ HasCallback(t)
    /\ th[t].pc = "get_bg_color"
    /\ \E bg_color \in {GetBgColor(form)} :
          th' = IF bg_color.ok
                THEN [th EXCEPT ![t].pc = "header", ![t].bg_color = bg_color.rgb]
                ELSE [th EXCEPT ![t].pc = "except"]
    /\ UNCHANGED <<mode, tree, outDirs, outFiles, args, emitted, convCalls,
                   exitCode, form, is_converting, button, log, queue, messagebox,
                   checked, started, edits,
                   parsed>>

\* self.log_message called by run_conversion itself
WorkerLog(lines) == log' = log \o [i \in 1..Len(lines) |-> LogLine(lines[i].msg, lines[i].is_error, "worker")]

Line(msg, is_error) == [msg |-> msg, is_error |-> is_error]

\* the six header lines
RunHeader(t) ==
    /\ HasCallback(t)
    /\ th[t].pc = "header"
    /\ WorkerLog(<<Line(<<"Input", th[t].input_dir>>, FALSE),
                   Line(<<"Output", th[t].output_dir>>, FALSE),
                   Line(<<"Quality", th[t].quality>>, FALSE),
                   Line(<<"Recursive", th[t].recursive>>, FALSE),
                   Line(<<"Background", th[t].bg_color>>, FALSE),
                   Line(<<"----">>, FALSE)>>)
    /\ th' = [th EXCEPT ![t].pc = "process_directory"]
    /\ UNCHANGED <<mode, tree, outDirs, outFiles, args, emitted, convCalls,
                   exitCode, form, is_converting, button, queue, messagebox,
                   checked, started, edits,
                   parsed>>

\* process_directory has returned: the rule and the "Complete!" line
RunComplete(t) ==
    /\ HasCallback(t)
    /\ th[t].pc = "pd_loop"
    /\ th[t].files = {}
    /\ WorkerLog(<<Line(<<"----">>, FALSE),
                   Line(<<"Complete!", th[t].converted_count, th[t].skipped_count>>, FALSE)>>)
    /\ th' = [th EXCEPT ![t].pc = "finally"]
    /\ UNCHANGED <<mode, tree, outDirs, outFiles, args, emitted, convCalls,
                   exitCode, form, is_converting, button, queue, messagebox,
                   checked, started, edits,
                   parsed>>

\* "except Exception as e"
RunExcept(t) ==
    /\ HasCallback(t)
    /\ th[t].pc = "except"
    /\ WorkerLog(<<Line(<<"Error during conversion">>, TRUE)>>)
    /\ th' = [th EXCEPT ![t].pc = "finally"]
    /\ UNCHANGED <<mode, tree, outDirs, outFiles, args, emitted, convCalls,
                   exitCode, form, is_converting, button, queue, messagebox,
                   checked, started, edits,
                   parsed>>

\* a finally clause that posts nothing
FinallyPostsNothing(q) == q

\* what the finally clause posts to the event loop
FinallyPosts(q) == Post(q, "conversion_complete", <<>>, FALSE)

\* "finally": conversion_complete is posted and the thread ends
RunFinally(t) ==
    /\ HasCallback(t)
    /\ th[t].pc = "finally"
    /\ queue' = FinallyPosts(queue)
    /\ th' = [u \in DOMAIN th \ {t} |-> th[u]]
    /\ UNCHANGED <<mode, tree, outDirs, outFiles, args, emitted, convCalls,
                   exitCode, form, is_converting, button, log, messagebox,
                   checked, started, edits,
                   parsed>>

\* input trees of a GUI session
GuiEntries ==
    { File(<<NameA>>, Img("RGBA", "ok")), File(<<NameA>>, Img("RGB", "bad")),
      File(<<NameTxt>>, NoImage) }

GuiTrees == {t \in Trees : t \subseteq GuiEntries}

GuiInit ==
    /\ mode = "gui"
    /\ tree \in GuiTrees
    /\ outDirs \in InitialOutDirs
    /\ outFiles = EmptyFiles
    /\ args = DefaultArgs
    /\ th = [t \in {} |-> Locals("")]
    /\ emitted = EmptyBag
    /\ convCalls = EmptyBag
    /\ exitCode = -1
    /\ form = InitialForm
    /\ is_converting = FALSE
    /\ button = UpdateButton(FALSE, "normal", InitialForm.input_path, InitialForm.output_path)
    /\ log = <<LogLine(<<"Ready to convert...">>, FALSE, "ui")>>
    /\ queue = <<>>
    /\ messagebox = ""
    /\ checked = NothingChecked
    /\ started = 0
    /\ edits = 0
    /\ parsed = <<>>

CliInit ==
    /\ mode = "cli"
    /\ tree \in Trees
    /\ outDirs \in InitialOutDirs
    /\ outFiles = EmptyFiles
    /\ args \in CliArgs
    /\ th = [t \in {0} |-> Locals("parse_arguments")]
    /\ emitted = EmptyBag
    /\ convCalls = EmptyBag
    /\ exitCode = -1
    /\ form = InitialForm
    /\ is_converting = FALSE
    /\ button = "disabled"
    /\ log = <<>>
    /\ queue = <<>>
    /\ messagebox = ""
    /\ checked = NothingChecked
    /\ started = 0
    /\ edits = 0
    /\ parsed = <<>>

Init == CliInit \/ GuiInit

(***************************************************************************)
(* The two validations side by side, on one request                        *)
(***************************************************************************)
\* what can stand between two commas
BaseFields ==
    { <<"0">>, <<"2", "5", "5">>, <<"2", "5", "6">>, <<" ", "1", " ">>,
      <<"-", "1">>, <<>>, <<"x">> }

\* the field lists of the requests: every list of up to MaxFields fields,
\* and the colours the command lines of Spec use
FieldLists ==
    UNION {[1..n -> BaseFields] : n \in 1..MaxFields}
    \cup { <<<<"0">>, <<"0">>, <<"0">>>>, <<<<"2", "5", "6">>, <<"0">>, <<"0">>>>,
           <<<<"1">>, <<"2">>>>, <<<<"+", "7">>, <<"0">>, <<"0">>>> }

\* the fields with commas between them: the string the user typed
RECURSIVE Join(_)
Join(fs) ==
    IF Len(fs) = 1 THEN fs[1]
    ELSE Join(SubSeq(fs, 1, Len(fs) - 1)) \o <<",">> \o fs[Len(fs)]

Qualities == {0, 1, 85, 100, 101}

NotParsed == [done |-> FALSE, rejects |-> "", bg |-> Rejected]

ParseInit ==
    /\ mode = "parse"
    /\ tree = {}
    /\ outDirs = {<<>>}
    /\ outFiles = EmptyFiles
    /\ \E fs \in FieldLists, q \in Qualities :
         /\ args = [DefaultArgs EXCEPT !.quality = q, !.background = Join(fs)]
         /\ parsed = [fields |-> fs, cli |-> NotParsed, gui |-> NotParsed]
         /\ form = [InitialForm EXCEPT !.input_path = "in", !.output_path = "out",
                                       !.bg_option = "custom", !.custom_bg = Join(fs)]
    /\ th = [t \in {} |-> Locals("")]
    /\ emitted = EmptyBag
    /\ convCalls = EmptyBag
    /\ exitCode = -1
    /\ is_converting = FALSE
    /\ button = "normal"
    /\ log = <<>>
    /\ queue = <<>>
    /\ messagebox = ""
    /\ checked = NothingChecked
    /\ started = 0
    /\ edits = 0

\* the command line's checks, applied to the request
ParseCli ==
    /\ mode = "parse"
    /\ ~parsed.cli.done
    /\ parsed' = [parsed EXCEPT !.cli =
                    [done |-> TRUE, rejects |-> CliRejects(args),
                     bg |-> CliParseBackground(args.background)]]
    /\ UNCHANGED <<mode, tree, outDirs, outFiles, args, th, emitted, convCalls,
                   exitCode, form, is_converting, button, log, queue, messagebox,
                   checked, started, edits>>

\* the custom colour entry's parser, applied to the same string
ParseGui ==
    /\ mode = "parse"
    /\ ~parsed.gui.done
    /\ parsed' = [parsed EXCEPT !.gui =
                    [done |-> TRUE, rejects |-> "",
                     bg |-> GuiParseBgColor(form.custom_bg)]]
    /\ UNCHANGED <<mode, tree, outDirs, outFiles, args, th, emitted, convCalls,
                   exitCode, form, is_converting, button, log, queue, messagebox,
                   checked, started, edits>>

ParseNext == ParseCli \/ ParseGui

ParseSpec == ParseInit /\ [][ParseNext]_vars

\* process_directory and the converter, on whichever thread runs them
BatchNext ==
    \/ \E t \in DOMAIN th : PdBegin(t)
    \/ \E t \in DOMAIN th : PdPick(t)
    \/ \E t \in DOMAIN th : PdConvert(t)

CliNext ==
    \/ ParseArguments
    \/ MainStart
    \/ MainSummary
    \/ MainUncaught

GuiNext ==
    \/ EditInput
    \/ EditOutput
    \/ EditBackground
    \/ StartConversion
    \/ Pump
    \/ \E t \in DOMAIN th : RunRead(t)
    \/ \E t \in DOMAIN th : RunGetBgColor(t)
    \/ \E t \in DOMAIN th : RunHeader(t)
    \/ \E t \in DOMAIN th : RunComplete(t)
    \/ \E t \in DOMAIN th : RunExcept(t)
    \/ \E t \in DOMAIN th : RunFinally(t)

Next == CliNext \/ GuiNext \/ BatchNext

Spec == Init /\ [][Next]_vars

(***************************************************************************)
(* A GUI session in which the event loop and the worker threads keep       *)
(* running: mainloop serves its queue, and a started thread is scheduled   *)
(* until it ends.                                                          *)
(***************************************************************************)
\* any step of worker thread t
WorkerStep(t) ==
    /\ t \in DOMAIN th
    /\ \/ RunRead(t) \/ RunGetBgColor(t) \/ RunHeader(t)
       \/ PdBegin(t) \/ PdPick(t) \/ PdConvert(t)
       \/ RunComplete(t) \/ RunExcept(t) \/ RunFinally(t)

\* the session starts on a folder with one PNG file and one other file
FairInit ==
    /\ GuiInit
    /\ tree = {File(<<NameA>>, Img("RGBA", "ok")), File(<<NameTxt>>, NoImage)}

FairNext == GuiNext \/ BatchNext

FairSpec ==
    /\ FairInit
    /\ [][FairNext]_vars
    /\ WF_vars(Pump)
    /\ \A t \in 1..MaxRuns : WF_vars(WorkerStep(t))

(***************************************************************************)
(* What the properties below speak about, stated without the operators of  *)
(* the program above.                                                      *)
(***************************************************************************)
\* the names of the trees that end in ".png", whatever the case of a letter
PngNames == {NameA, NameAUpper, NameC, NameD}

NameAJpg == <<"a", ".", "j", "p", "g">>
NameCJpg == <<"c", ".", "j", "p", "g">>
NameDJpg == <<"d", ".", "v", ".", "j", "p", "g">>

\* a PNG name with only its extension changed to ".jpg"
JpgName(name) ==
    CASE name = NameA -> NameAJpg
      [] name = NameAUpper -> NameAJpg
      [] name = NameC -> NameCJpg
      [] name = NameD -> NameDJpg

LastName(path) == path[Len(path)]

IsPngFile(e) == ~e.dir /\ LastName(e.path) \in PngNames
IsOtherFile(e) == ~e.dir /\ LastName(e.path) \notin PngNames

\* the entries a batch of thread t has to go through
Enumerated(t) ==
    IF th[t].input_dir # "in" THEN {}
    ELSE IF th[t].recursive THEN tree
    ELSE {e \in tree : Len(e.path) = 1}

\* thread t is inside process_directory, or main has returned from it
InBatch(t) == th[t].pc \in {"pd_loop", "pd_convert", "returned"}

\* the entries the loop of thread t is through with
Processed(t) == {e \in Enumerated(t) : e \notin th[t].files /\ e # th[t].cur}

\* calls of the converter by thread t on the file at path
Calls(t, path) ==
    BagSum(convCalls, {c \in DOMAIN convCalls : c.t = t /\ c.input = path})

OkCalls(t, path) ==
    BagSum(convCalls, {c \in DOMAIN convCalls : c.t = t /\ c.input = path /\ c.ok})

FailedCalls(t, path) ==
    BagSum(convCalls, {c \in DOMAIN convCalls : c.t = t /\ c.input = path /\ ~c.ok})

\* the channel a batch of thread t reports to
ProgressVia(t) == IF t = 0 THEN "stdout" ELSE "callback"
ErrorVia(t) == IF t = 0 THEN "stderr" ELSE "callback"

Warnings(t, e) ==
    BagCount(emitted, [t |-> t, msg |-> <<"Warning: Skipping non-PNG file", e.path>>,
                       is_error |-> FALSE, via |-> ProgressVia(t)])

\* C1: process_directory classifies every enumerated entry exactly once.  A
\* directory is neither counted, warned about nor converted; a file that is
\* no PNG gets one warning, counts as skipped, is never handed to the
\* converter and is the source of no output file; a PNG file is handed to the
\* converter exactly once and counts as converted when the call succeeded,
\* else as skipped; entries not reached yet have left no trace.  When the
\* loop is over, converted_count + skipped_count is the number of enumerated
\* entries that are no directories.
C1_ClassifiedOnce ==
    \A t \in DOMAIN th : InBatch(t) =>
        LET done == Processed(t)
            pngDone == {e \in done : IsPngFile(e)}
            otherDone == {e \in done : IsOtherFile(e)}
        IN  /\ \A e \in tree : e.dir => Calls(t, e.path) = 0 /\ Warnings(t, e) = 0
            /\ \A e \in tree : IsOtherFile(e) =>
                  /\ Calls(t, e.path) = 0
                  /\ Warnings(t, e) = (IF e \in done THEN 1 ELSE 0)
                  /\ \A p \in DOMAIN outFiles : outFiles[p].src # e.path
            /\ \A e \in tree : IsPngFile(e) =>
                  /\ Warnings(t, e) = 0
                  /\ Calls(t, e.path) = (IF e \in done THEN 1 ELSE 0)
            /\ th[t].converted_count =
                  Cardinality({e \in pngDone : OkCalls(t, e.path) = 1})
            /\ th[t].skipped_count =
                  Cardinality(otherDone)
                  + Cardinality({e \in pngDone : OkCalls(t, e.path) = 0})
            /\ (th[t].files = {} /\ th[t].pc # "pd_convert") =>
                  th[t].converted_count + th[t].skipped_count
                     = Cardinality({e \in Enumerated(t) : ~e.dir})

\* a recursive command line run has returned (1, 2) from a tree with a
\* directory, a file that is no PNG, a PNG that converted and one that failed
C1_Witness ==
    /\ mode = "cli"
    /\ th[0].pc = "returned"
    /\ th[0].recursive
    /\ th[0].converted_count = 1
    /\ th[0].skipped_count = 2
    /\ \E e \in tree : e.dir
    /\ \E e \in tree : IsOtherFile(e)
    /\ \E e \in tree : IsPngFile(e) /\ FailedCalls(0, e.path) = 1

\* Path(output_dir) as the claims read it
OutputRoot(d) == IF d = "out" THEN <<NameOut>> ELSE <<>>

\* the output root joined with the relative path, the extension now ".jpg"
Mirrored(root, rel) == root \o Dirname(rel) \o <<JpgName(LastName(rel))>>

\* C2: a recursive batch hands the PNG files of every depth to the converter
\* and each goes to the output root joined with its path relative to the
\* input root, only the extension changed to ".jpg" (a converted file is
\* there); a batch that is not recursive touches direct children only: no
\* nested entry is converted, counted, warned about or even listed.
C2_MirroredPaths ==
    \A t \in DOMAIN th : InBatch(t) =>
        /\ \A c \in DOMAIN convCalls : c.t = t =>
              /\ c.output = Mirrored(OutputRoot(th[t].output_dir), c.input)
              /\ c.ok => c.output \in DOMAIN outFiles
              /\ ~th[t].recursive => Len(c.input) = 1
        /\ ~th[t].recursive =>
              \A e \in tree : Len(e.path) > 1 =>
                 /\ Calls(t, e.path) = 0
                 /\ Warnings(t, e) = 0
                 /\ e \notin th[t].files
                 /\ e # th[t].cur
        /\ ~th[t].recursive =>
              th[t].converted_count + th[t].skipped_count
                 <= Cardinality({e \in tree : Len(e.path) = 1 /\ ~e.dir})
        /\ (th[t].recursive /\ th[t].input_dir = "in"
              /\ th[t].files = {} /\ th[t].pc # "pd_convert") =>
              \A e \in tree : IsPngFile(e) => Calls(t, e.path) = 1
        /\ mode = "cli" =>
              \A p \in DOMAIN outFiles :
                 \E e \in tree : /\ IsPngFile(e)
                                 /\ p = Mirrored(OutputRoot(th[t].output_dir), e.path)

\* a recursive run has written the PNG three levels down to its mirrored place
C2_Witness ==
    /\ mode = "cli"
    /\ th[0].pc = "returned"
    /\ th[0].recursive
    /\ <<NameOut, NameSub, NameArch, NameDJpg>> \in DOMAIN outFiles
    /\ outFiles[<<NameOut, NameSub, NameArch, NameDJpg>>].src = <<NameSub, NameArch, NameD>>
    /\ <<NameOut, NameAJpg>> \in DOMAIN outFiles

\* error messages of thread t that name the file at path
Errors(t, path, via) ==
    BagCount(emitted, [t |-> t, msg |-> <<"Error", LastName(path)>>,
                       is_error |-> TRUE, via |-> via])

\* C3: a failure of the converter on one PNG file does not abort the batch.
\* Each failed call is answered by exactly one error message that names the
\* file, through progress_callback with is_error = True when there is a
\* callback and on stderr otherwise, and by nothing on another channel; the
\* file counts as skipped; and the thread stays in the loop, which ends only
\* when every enumerated entry has been processed.
C3_FailureIsPerFile ==
    \A t \in DOMAIN th :
        /\ (\E c \in DOMAIN convCalls : c.t = t /\ ~c.ok) =>
              th[t].pc \in {"pd_loop", "pd_convert", "returned", "finally"}
        /\ InBatch(t) =>
              /\ \A e \in tree : ~e.dir =>
                    /\ Errors(t, e.path, ErrorVia(t)) = FailedCalls(t, e.path)
                    /\ FailedCalls(t, e.path) <= 1
                    /\ \A v \in {"stdout", "stderr", "callback"} \ {ErrorVia(t)} :
                          Errors(t, e.path, v) = 0
              /\ th[t].skipped_count =
                    Cardinality({e \in Processed(t) : IsOtherFile(e)})
                    + Cardinality({e \in tree : ~e.dir /\ FailedCalls(t, e.path) = 1})
              /\ th[t].pc = "returned" =>
                    /\ Processed(t) = Enumerated(t)
                    /\ \A e \in Enumerated(t) : IsPngFile(e) => Calls(t, e.path) = 1

\* a run has returned after one decode failure, one encode failure and one
\* conversion
C3_Witness ==
    /\ mode = "cli"
    /\ th[0].pc = "returned"
    /\ th[0].converted_count = 1
    /\ \E c \in DOMAIN convCalls : ~c.ok /\ c.step = "decode"
    /\ \E c \in DOMAIN convCalls : ~c.ok /\ c.step = "encode"

\* files the run converted, and files it skipped
ConvertedFiles == Cardinality({e \in tree : OkCalls(0, e.path) > 0})
SkippedFiles ==
    Cardinality({e \in tree : ~e.dir /\ (Warnings(0, e) > 0 \/ FailedCalls(0, e.path) > 0)})

\* C4: the exit status of a command line run that passed validation is 0 when
\* a file was converted or nothing was skipped, and 1 exactly when a file was
\* skipped and none was converted.
C4_ExitCode ==
    (mode = "cli" /\ exitCode # -1 /\ th[0].pc # "usage_exit") =>
        /\ exitCode \in {0, 1}
        /\ exitCode = 1 <=> (SkippedFiles > 0 /\ ConvertedFiles = 0)

\* the run passed validation, skipped nothing and converted nothing, and
\* left with status 1 on the exception of the output root's mkdir
C4_Witness ==
    /\ mode = "cli"
    /\ th[0].pc = "traceback"
    /\ exitCode = 1
    /\ SkippedFiles = 0
    /\ ConvertedFiles = 0

\* a command line whose three validated values are valid
CliValid(a) ==
    /\ a.input = "in"
    /\ a.quality \in 1..100
    /\ a.background \in {BgWhite, BgBlack}

\* a form whose validated values are valid
GuiValid(f) ==
    /\ f.input_path = "in"
    /\ f.quality \in 1..100
    /\ f.bg_option = "custom" => f.custom_bg = BgWhite

\* C5: validation comes before any conversion work.  On the command line an
\* invalid input directory, quality or background colour makes the run end
\* in parse_arguments with a message on stderr and status 2, with no
\* directory created, no file listed and no converter call, and every step
\* that lists, creates or converts belongs to a run whose arguments are
\* valid.  In the GUI a press of Convert on an invalid form only shows the
\* error box: no worker is started and nothing else changes; a worker is
\* started only from a form that is valid at the press, and only workers
\* create directories, list or convert.
C5_ValidationFirst ==
    [][ /\ (mode = "cli" /\ ~CliValid(args)) =>
              /\ th[0].pc = "parse_arguments"
              /\ th'[0].pc = "usage_exit"
              /\ exitCode' = 2
              /\ \E what \in {"input", "quality", "background"} :
                    emitted' = BagAdd(emitted,
                        [t |-> 0, msg |-> <<"usage", what>>, is_error |-> TRUE,
                         via |-> "stderr"])
              /\ th'[0].files = {}
              /\ UNCHANGED <<outDirs, outFiles, convCalls>>
        /\ (mode = "cli" /\ (outDirs' # outDirs \/ outFiles' # outFiles
                              \/ convCalls' # convCalls
                              \/ th'[0].files # th[0].files)) =>
              /\ CliValid(args)
              /\ th[0].pc \notin {"parse_arguments", "main"}
        /\ (mode = "gui" /\ started' # started) =>
              /\ GuiValid(form)
              /\ UNCHANGED <<outDirs, outFiles, convCalls, messagebox>>
        /\ (mode = "gui" /\ messagebox' # messagebox) =>
              /\ messagebox' # ""
              /\ UNCHANGED <<outDirs, outFiles, convCalls, th, is_converting, button,
                             log, queue, started, form, emitted>>
        /\ (mode = "gui" /\ button = "normal" /\ ~GuiValid(form)) =>
              UNCHANGED <<outDirs, outFiles, convCalls, th, is_converting, started,
                          queue, emitted>>
        /\ (mode = "gui" /\ (outDirs' # outDirs \/ outFiles' # outFiles
                              \/ convCalls' # convCalls)) =>
              /\ started >= 1
              /\ is_converting
      ]_vars

\* Convert was pressed on a form whose custom colour is out of range: the
\* error box is up, no worker was started and nothing was created
C5_Witness ==
    /\ mode = "gui"
    /\ form.input_path = "in"
    /\ form.bg_option = "custom"
    /\ form.custom_bg = BgTooBig
    /\ messagebox = "Background color"
    /\ started = 0
    /\ outDirs = {<<>>}
    /\ convCalls = EmptyBag

\* the fields that are integer literals, and the integers they denote
IntFields ==
    { <<"0">>, <<"1">>, <<"2">>, <<"2", "5", "5">>, <<"2", "5", "6">>,
      <<" ", "1", " ">>, <<"-", "1">>, <<"+", "7">> }

FieldInt(f) ==
    CASE f = <<"0">> -> 0
      [] f = <<"1">> -> 1
      [] f = <<" ", "1", " ">> -> 1
      [] f = <<"2">> -> 2
      [] f = <<"+", "7">> -> 7
      [] f = <<"2", "5", "5">> -> 255
      [] f = <<"2", "5", "6">> -> 256
      [] f = <<"-", "1">> -> 0 - 1

\* the request's colour is three integers in [0,255]
IsColour(fs) ==
    /\ Len(fs) = 3
    /\ \A i \in 1..3 : fs[i] \in IntFields /\ FieldInt(fs[i]) \in 0..255

\* C6: the command line accepts a request exactly when its quality is in
\* [1,100] and its background string splits on commas into exactly three
\* integers, each in [0,255]; an accepted string yields the tuple of the
\* three; "0,0,0" yields (0,0,0), "256,0,0" and "1,2" are rejected; and the
\* GUI's custom colour parser accepts the same strings with the same tuples.
C6_ValidationRule ==
    mode = "parse" =>
        LET fs == parsed.fields
            rgb == [i \in 1..3 |-> FieldInt(fs[i])]
        IN  /\ parsed.cli.done =>
                 /\ (parsed.cli.rejects = "") <=> (args.quality \in 1..100 /\ IsColour(fs))
                 /\ (parsed.cli.rejects = "quality") <=> (args.quality \notin 1..100)
                 /\ parsed.cli.bg.ok <=> IsColour(fs)
                 /\ IsColour(fs) => parsed.cli.bg.rgb = rgb
            /\ parsed.gui.done =>
                 /\ parsed.gui.bg.ok <=> IsColour(fs)
                 /\ IsColour(fs) => parsed.gui.bg.rgb = rgb
            /\ (parsed.cli.done /\ parsed.gui.done) => parsed.cli.bg = parsed.gui.bg
            /\ \A who \in {"cli", "gui"} : parsed[who].done =>
                 /\ args.background = BgBlack => parsed[who].bg = Accepted(<<0, 0, 0>>)
                 /\ args.background = BgWhite => parsed[who].bg = Accepted(<<255, 255, 255>>)
                 /\ args.background \in {BgTooBig, BgTooShort} => ~parsed[who].bg.ok

\* both parsers have read "0,0,0" at quality 100 and both accepted it
C6_Witness ==
    /\ mode = "parse"
    /\ args.background = BgBlack
    /\ args.quality = 100
    /\ parsed.cli.done /\ parsed.cli.rejects = ""
    /\ parsed.gui.done /\ parsed.gui.bg.rgb = <<0, 0, 0>>

\* C7: the status log and the Convert button are written only by code that
\* runs on the UI thread: every line of the log was put there by the UI
\* thread, the worker's notifications having come through the event loop.
C7_OnlyUiThreadWrites ==
    mode = "gui" => \A i \in 1..Len(log) : log[i].by = "ui"

\* the worker thread itself has written the "Complete!" line into the log
C7_Witness ==
    /\ mode = "gui"
    /\ \E i \in 1..Len(log) :
          /\ log[i].by = "worker"
          /\ log[i].msg[1] = "Complete!"

\* C8: the Convert button is enabled only when both paths are non-empty and
\* no conversion is in progress; from the start of a validated conversion to
\* conversion_complete (while a worker lives or its completion is still
\* queued) is_converting holds and the button is disabled whatever the path
\* fields hold; so there is never more than one worker thread.
C8_ButtonGuardsWorker ==
    mode = "gui" =>
        /\ button = "normal" =>
              /\ form.input_path # ""
              /\ form.output_path # ""
              /\ ~is_converting
        /\ is_converting => button = "disabled"
        /\ DOMAIN th # {} => is_converting
        /\ (\E i \in 1..Len(queue) : queue[i].fn = "conversion_complete") => is_converting
        /\ Cardinality(DOMAIN th) <= 1
        /\ Cardinality(DOMAIN th)
             + Cardinality({i \in 1..Len(queue) : queue[i].fn = "conversion_complete"})
             <= 1

\* a worker is running, the input field was edited after the press, both
\* path fields are non-empty and the button is still disabled
C8_Witness ==
    /\ mode = "gui"
    /\ is_converting
    /\ DOMAIN th # {}
    /\ form.input_path = "nodir"
    /\ form.output_path = "out"
    /\ button = "disabled"

\* C9 as stated: when conversion_complete runs, the Convert button is enabled
C9_ButtonReenabled ==
    [][(is_converting /\ ~is_converting') => button' = "normal"]_vars

\* C9: with the event loop and the worker scheduled fairly, every started
\* conversion ends: conversion_complete runs and resets is_converting,
\* whether the batch returned or the worker raised; it leaves the Convert
\* button enabled when both path fields are non-empty at that moment and
\* disabled otherwise.
C9_ConversionEnds ==
    /\ is_converting ~> ~is_converting
    /\ [][(is_converting /\ ~is_converting') =>
             /\ DOMAIN th' = {}
             /\ button' = IF form.input_path # "" /\ form.output_path # ""
                          THEN "normal" ELSE "disabled"]_vars

\* a run whose worker raised has ended: the error line is in the log,
\* is_converting is reset and the button is enabled again
C9_Witness ==
    /\ mode = "gui"
    /\ started >= 1
    /\ ~is_converting
    /\ button = "normal"
    /\ \E i \in 1..Len(log) : log[i].msg = <<"Error during conversion">>

\* the converter calls a step makes
NewCalls == {c \in DOMAIN convCalls' : BagCount(convCalls', c) > BagCount(convCalls, c)}

\* the directories above a path
Ancestors(p) == {SubSeq(p, 1, k) : k \in 0..(Len(p) - 1)}

\* every path but p is as it was
OthersUntouched(p) ==
    /\ DOMAIN outFiles' \ {p} = DOMAIN outFiles \ {p}
    /\ \A q \in DOMAIN outFiles \ {p} : outFiles'[q] = outFiles[q]

\* C10 as stated: success writes the output path and no other file; failure
\* leaves the file system as it was
C10_NothingOnFailure ==
    [][\A c \in NewCalls :
          /\ c.ok => (c.output \in DOMAIN outFiles' /\ OthersUntouched(c.output))
          /\ ~c.ok => UNCHANGED <<outDirs, outFiles>>]_vars

\* C10: a call that returns success has written the given output path (its
\* parent directories made where missing) and no other file.  A call that
\* fails at the decode or normalisation step leaves the file system as it
\* was.  A call that fails at directory creation writes no file but may
\* leave some of the missing parent directories; a call that fails at the
\* encode step leaves the parent directories it made, and the output path
\* absent, as it was, or cut short.  No call touches another file, removes a
\* directory or makes one that is not a parent of its output path.
C10_ConverterFrame ==
    [][\A c \in NewCalls :
          /\ tree' = tree
          /\ outDirs \subseteq outDirs'
          /\ outDirs' \subseteq outDirs \cup Ancestors(c.output)
          /\ OthersUntouched(c.output)
          /\ c.ok =>
                /\ c.output \in DOMAIN outFiles'
                /\ outFiles'[c.output].src = c.input
                /\ Ancestors(c.output) \subseteq outDirs'
          /\ (~c.ok /\ c.step \in {"decode", "normalise"}) =>
                UNCHANGED <<outDirs, outFiles>>
          /\ (~c.ok /\ c.step = "makedirs") => outFiles' = outFiles
          /\ (~c.ok /\ c.step = "encode") =>
                /\ Ancestors(c.output) \subseteq outDirs'
                /\ c.output \in DOMAIN outFiles' =>
                      \/ outFiles'[c.output] = Partial
                      \/ /\ c.output \in DOMAIN outFiles
                         /\ outFiles'[c.output] = outFiles[c.output]]_vars

\* a call failed at the encode step after it had made the directory of its
\* output, and a call failed at the decode step
C10_Witness ==
    /\ mode = "cli"
    /\ \E c \in DOMAIN convCalls : ~c.ok /\ c.step = "encode"
    /\ \E c \in DOMAIN convCalls : ~c.ok /\ c.step = "decode"
    /\ \E c \in DOMAIN convCalls : c.ok
    /\ <<NameOut, NameSub>> \in outDirs
    /\ Partial \in {outFiles[p] : p \in DOMAIN outFiles}

\* the PNG files of the tree that thread t's batch is to convert
BatchPngs(t) == {e \in Enumerated(t) : IsPngFile(e)}

\* C11: a directory that cannot be created is a per-file failure.
\* process_directory does not raise: from its first statement it goes on to
\* its loop, whether or not the output root could be made.  A converter call
\* that failed at directory creation is counted as skipped and the loop goes
\* on to the remaining files; and a command line run in which every PNG file
\* failed so (there being one) returns no conversion and exits with 1.
C11_DirFailureIsPerFile ==
    /\ [][\A t \in DOMAIN th : th[t].pc = "process_directory" =>
             /\ t \in DOMAIN th'
             /\ th'[t].pc \in {"process_directory", "pd_loop"}]_vars
    /\ [](\A t \in DOMAIN th : InBatch(t) =>
             /\ th[t].skipped_count >=
                   Cardinality({e \in tree : \E c \in DOMAIN convCalls :
                                   /\ c.t = t /\ c.input = e.path
                                   /\ ~c.ok /\ c.step = "makedirs"})
             /\ (t = 0 /\ th[t].pc = "returned" /\ BatchPngs(t) # {}
                   /\ \A e \in BatchPngs(t) : \E c \in DOMAIN convCalls :
                         c.t = t /\ c.input = e.path /\ ~c.ok /\ c.step = "makedirs") =>
                   /\ th[t].converted_count = 0
                   /\ exitCode = 1)

\* the output root could not be made: process_directory has raised into main
\* with PNG files in the input folder, none of them listed, converted or
\* counted
C11_Witness ==
    /\ mode = "cli"
    /\ th[0].pc = "uncaught"
    /\ \E e \in tree : IsPngFile(e) /\ Len(e.path) = 1
    /\ th[0].files = {}
    /\ th[0].skipped_count = 0
    /\ convCalls = EmptyBag
    /\ <<NameOut>> \notin outDirs

\* C12: ensuring a directory that is already there reports no error.
\* process_directory passes its mkdir when the output root exists, and a
\* converter call whose output file has all its parent directories in place
\* does not fail at directory creation, for every output path the walker
\* derives, the files directly in an output root given as "." included.
C12_EnsureIsIdempotent ==
    [][ /\ \A t \in DOMAIN th :
              (th[t].pc = "process_directory"
                 /\ OutputRoot(th[t].output_dir) \in outDirs) =>
                    /\ t \in DOMAIN th'
                    /\ th'[t].pc \in {"process_directory", "pd_loop"}
        /\ \A c \in NewCalls :
              Ancestors(c.output) \subseteq outDirs => c.step # "makedirs"
      ]_vars

\* with -o . a sound PNG file directly in the input folder was refused at
\* directory creation, its output path having no parent component, and
\* counted as skipped
C12_Witness ==
    /\ mode = "cli"
    /\ args.output = "."
    /\ th[0].pc = "returned"
    /\ File(<<NameA>>, Img("RGBA", "ok")) \in tree
    /\ \E c \in DOMAIN convCalls :
          /\ c.input = <<NameA>>
          /\ c.output = <<NameAJpg>>
          /\ ~c.ok
          /\ c.step = "makedirs"
    /\ th[0].skipped_count >= 1
    /\ <<NameAJpg>> \notin DOMAIN outFiles

\* a line of the log that process_directory or the converter sent
PerFileLine(l) ==
    l.msg[1] \in {"Converting", "Error", "Warning: Skipping non-PNG file"}

\* a header line of run_conversion
HeaderLine(l) ==
    l.msg[1] \in {"Input", "Output", "Quality", "Recursive", "Background"}

\* the run's header lines come before its per-file lines
C13_HeaderFirst ==
    \A i, j \in 1..Len(log) : (i < j /\ PerFileLine(log[i])) => ~HeaderLine(log[j])

\* the Convert button is enabled again only when no worker lives and no line
\* is still waiting in the event loop
C13_ButtonAfterLines ==
    (started >= 1 /\ button = "normal") =>
        /\ DOMAIN th = {}
        /\ \A k \in 1..Len(queue) : queue[k].fn # "log_message"

\* C13: the status log of a run shows the lines in the order the worker
\* produced them: the header lines first, every per-file progress, warning
\* and error line before the "Complete!" line, and the Convert button is
\* enabled again only after all of them have been appended.
C13_LogInWorkerOrder ==
    mode = "gui" =>
        /\ C13_HeaderFirst
        /\ \A i, j \in 1..Len(log) :
              (i < j /\ log[i].msg[1] = "Complete!") => ~PerFileLine(log[j])
        /\ C13_ButtonAfterLines

\* a per-file line was appended after the run's "Complete!" line
C13_Witness ==
    /\ mode = "gui"
    /\ \E i, j \in 1..Len(log) :
          /\ i < j
          /\ log[i].msg[1] = "Complete!"
          /\ log[i].by = "worker"
          /\ PerFileLine(log[j])
          /\ log[j].by = "ui"

\* the colour that the background fields validated at the press stand for
CheckedColour ==
    IF checked.bg_option = "white" THEN <<255, 255, 255>>
    ELSE IF checked.bg_option = "black" THEN <<0, 0, 0>>
    ELSE IF checked.custom_bg = BgWhite THEN <<255, 255, 255>>
    ELSE <<>>

\* C14: the batch of a GUI run is given exactly the values that
\* validate_inputs read when Convert was pressed: whatever the user edits
\* while the worker starts, a worker that has called process_directory holds
\* the validated input folder, the output folder and recursive flag of the
\* press and the colour of the validated background fields.
C14_RunsWithValidated ==
    mode = "gui" =>
        \A t \in DOMAIN th :
            th[t].pc \in {"process_directory", "pd_loop", "pd_convert"} =>
                /\ th[t].input_dir = checked.input_dir
                /\ th[t].input_dir = "in"
                /\ th[t].output_dir = checked.output_dir
                /\ th[t].recursive = checked.recursive
                /\ th[t].bg_color = CheckedColour

\* the input field was changed between the press and the worker's read:
\* process_directory runs on a folder that was never validated, with the
\* output root made and nothing listed
C14_Witness ==
    /\ mode = "gui"
    /\ checked.input_dir = "in"
    /\ \E t \in DOMAIN th :
          /\ th[t].pc = "pd_loop"
          /\ th[t].input_dir = "nodir"
          /\ th[t].files = {}
          /\ OutputRoot(th[t].output_dir) \in outDirs

=============================================================================
